---- MODULE Spec2Model ----
(***************************************************************************)
(* Model of cover_letter_generator.py: the draft composer                  *)
(* (generate_cover_letter), the markdown-to-markup translation inside      *)
(* create_pdf, and the Streamlit script that wires them to session state.  *)
(*                                                                         *)
(* A text is a sequence of characters.  The multi-character literals the   *)
(* code searches for or inserts as a unit ("<b>", "</b>", "<br/>") are     *)
(* single elements of a text; "**" and the blank line are two elements     *)
(* each ("*","*" and "\n","\n"), so that odd runs of stars and of newlines *)
(* behave as they do in Python.                                            *)
(***************************************************************************)
EXTENDS Integers, Sequences, FiniteSets, TLC

VARIABLES
    cover_letter_text,  \* create_pdf: its argument (translation specification)
    Story,              \* create_pdf: the styled blocks the loop produced
    pdf_value,          \* create_pdf: "pending" | "pdf" | "None" | "raised"
    job_title, company_name, skills, experience, tone, job_description,
                        \* the form widgets' values
    clicked,            \* st.button's value in the current script run
    edit_box,           \* the draft text_area: None or Some([default, value])
    generated_letter,   \* st.session_state.generated_letter: None or Some(text)
    pdf_output,         \* st.session_state.pdf_output: None or Some(Story)
    pc,                 \* position of the script run: idle, button, output
    ui,                 \* what the current script run has put on the page
    calls,              \* the calls the current script run has made
    gen_args,           \* generate_cover_letter's arguments in this run
    letter_draft        \* generate_cover_letter's return value in this run

tvars == <<cover_letter_text, Story, pdf_value>>
fields == <<job_title, company_name, skills, experience, tone, job_description>>
uvars == <<fields, clicked, edit_box, generated_letter, pdf_output, pc, ui,
           calls, gen_args, letter_draft>>
vars == <<tvars, uvars>>

-----------------------------------------------------------------------------
(* Bounds of the model. *)

\* longest draft the translation specification types in
MaxLen == 7

\* longest draft the plain-draft specification types in
MaxPlain == 9

-----------------------------------------------------------------------------
(* Characters. *)

NL == "\n"
STAR == "*"
OB == "<b>"
CB == "</b>"
BR == "<br/>"

\* Python's None, and a value that is not None
None == <<>>
Some(v) == <<v>>

\* str.strip() removes these
Whitespace == {" ", NL}

-----------------------------------------------------------------------------
(* Python's str methods, on sequences of characters. *)

\* s[i:] (1-based i)
From(s, i) == SubSeq(s, i, Len(s))

\* s.startswith(pat, i-1)
StartsAt(s, i, pat) ==
    /\ i + Len(pat) - 1 <= Len(s)
    /\ SubSeq(s, i, i + Len(pat) - 1) = pat

\* position of the leftmost occurrence of pat in s at or after i, 0 if none
RECURSIVE Find(_, _, _)
Find(s, pat, i) ==
    IF i + Len(pat) - 1 > Len(s) THEN 0
    ELSE IF StartsAt(s, i, pat) THEN i
    ELSE Find(s, pat, i + 1)

\* s.replace(old, new): leftmost non-overlapping occurrences, one pass
RECURSIVE replace(_, _, _)
replace(s, old, new) ==
    LET k == Find(s, old, 1)
    IN IF k = 0 THEN s
       ELSE SubSeq(s, 1, k - 1) \o new \o replace(From(s, k + Len(old)), old, new)

\* s.split(sep, maxsplit): at most maxsplit splits, maxsplit = -1 for no limit
RECURSIVE split(_, _, _)
split(s, sep, maxsplit) ==
    LET k == Find(s, sep, 1)
    IN IF k = 0 \/ maxsplit = 0 THEN <<s>>
       ELSE <<SubSeq(s, 1, k - 1)>>
            \o split(From(s, k + Len(sep)), sep, maxsplit - 1)

\* sep.join(parts)
RECURSIVE join(_, _)
join(sep, parts) ==
    IF Len(parts) = 0 THEN <<>>
    ELSE IF Len(parts) = 1 THEN parts[1]
    ELSE parts[1] \o sep \o join(sep, Tail(parts))

\* s.strip()
RECURSIVE lstrip(_)
lstrip(s) ==
    IF Len(s) > 0 /\ s[1] \in Whitespace THEN lstrip(Tail(s)) ELSE s

RECURSIVE rstrip(_)
rstrip(s) ==
    IF Len(s) > 0 /\ s[Len(s)] \in Whitespace
    THEN rstrip(SubSeq(s, 1, Len(s) - 1)) ELSE s

strip(s) == rstrip(lstrip(s))

\* list.index(x), 0-based as in Python; x is known to be in the list
index(list, x) == (CHOOSE i \in 1..Len(list) :
                      /\ list[i] = x
                      /\ \A j \in 1..(i - 1) : list[j] # x) - 1

-----------------------------------------------------------------------------
(* generate_cover_letter: the draft composer.  "w" stands for a run of the *)
(* template's own words (no newline, no star, no markup).                  *)

W == "w"
Indent == <<" ", " ", " ", " ">>
Bold(s) == <<STAR, STAR>> \o s \o <<STAR, STAR>>

\* skills[:2]
FirstTwo(list) == SubSeq(list, 1, IF Len(list) < 2 THEN Len(list) ELSE 2)

\* the f-string between the triple quotes
mock_letter(job_title_, company, skills_, tone_) ==
    <<NL>> \o Indent \o <<W>>
    \o <<NL, NL>> \o Indent
        \o <<W>> \o Bold(job_title_) \o <<W>> \o Bold(company) \o <<W>>
        \o company \o <<W>> \o join(<<",", " ">>, FirstTwo(skills_)) \o <<W>>
    \o <<NL, NL>> \o Indent
        \o <<W>> \o Bold(<<W>>) \o <<W>> \o Bold(<<W>>) \o <<W>>
        \o Bold(tone_) \o <<W>>
    \o <<NL, NL>> \o Indent \o <<W>> \o <<NL>> \o Indent
        \o <<W>> \o Bold(join(<<",", " ">>, skills_)) \o <<W>>
        \o Bold(tone_) \o <<W>>
    \o <<NL, NL>> \o Indent \o <<W>> \o company \o <<W>>
    \o <<NL, NL>> \o Indent \o <<W>>
    \o <<NL, NL>> \o Indent \o <<W>>
    \o <<NL>> \o Indent

\* the header with its closing blank line cut to a single newline
professional_header_one_newline == Bold(<<W>>) \o <<NL, W, NL, W, NL>>

professional_header == Bold(<<W>>) \o <<NL, W, NL, W, NL, NL>>

\* experience and job_description only reach the unused user_query
generate_cover_letter(job_title_, company, skills_, experience_, tone_, job_description_) ==
    professional_header \o strip(mock_letter(job_title_, company, skills_, tone_))

-----------------------------------------------------------------------------
(* create_pdf: the translation of the draft into styled blocks. *)

\* the loop with in_bold never reset after a bold chunk
RECURSIVE BoldLoopStuck(_, _)
BoldLoopStuck(chunks, in_bold) ==
    IF Len(chunks) = 0 THEN <<>>
    ELSE IF ~in_bold
         THEN <<chunks[1]>> \o BoldLoopStuck(Tail(chunks), TRUE)
         ELSE <<<<OB>> \o chunks[1] \o <<CB>>>> \o BoldLoopStuck(Tail(chunks), TRUE)

\* the loop with the closing tag forgotten
RECURSIVE BoldLoopNoClose(_, _)
BoldLoopNoClose(chunks, in_bold) ==
    IF Len(chunks) = 0 THEN <<>>
    ELSE IF ~in_bold
         THEN <<chunks[1]>> \o BoldLoopNoClose(Tail(chunks), TRUE)
         ELSE <<<<OB>> \o chunks[1]>> \o BoldLoopNoClose(Tail(chunks), FALSE)

\* the loop over html_para.split('**') that wraps every other chunk
RECURSIVE BoldLoop(_, _)
BoldLoop(chunks, in_bold) ==
    IF Len(chunks) = 0 THEN <<>>
    ELSE IF ~in_bold
         THEN <<chunks[1]>> \o BoldLoop(Tail(chunks), TRUE)
         ELSE <<<<OB>> \o chunks[1] \o <<CB>>>> \o BoldLoop(Tail(chunks), FALSE)

\* the replacement the loop was written to avoid: replace('**', '<b>')
GenericParaNaive(para_text) ==
    replace(replace(para_text, <<NL>>, <<BR>>), <<STAR, STAR>>, <<OB>>)

\* html_para after the sequential replacement and the join with its cleanup
GenericPara(para_text) ==
    LET html_para == replace(para_text, <<NL>>, <<BR>>)
        temp_html_para == BoldLoop(split(html_para, <<STAR, STAR>>, -1), FALSE)
    IN replace(replace(join(<<>>, temp_html_para), <<OB, OB>>, <<OB>>),
               <<CB, CB>>, <<CB>>)

\* the header case: the first two '**' become <b> and </b><br/>
HeaderPara(para_text, html_para) ==
    LET header_parts == split(para_text, <<STAR, STAR>>, 2)
    IN IF Len(header_parts) = 3
       THEN <<OB>> \o header_parts[2] \o <<CB, BR>>
            \o replace(header_parts[3], <<NL>>, <<BR>>)
       ELSE html_para

\* is_header = paragraphs.index(para_text) == 0
is_header(paragraphs, para_text) == index(paragraphs, para_text) = 0

\* one iteration of the loop for a block that is not skipped
StyledBlock(paragraphs, para_text) ==
    LET html_para == GenericPara(para_text)
    IN IF is_header(paragraphs, para_text)
       THEN [text |-> HeaderPara(para_text, html_para), style |-> "Header"]
       ELSE [text |-> html_para, style |-> "Body_Justify"]

\* the loop: the blocks whose strip() is empty are skipped
RECURSIVE StoryFrom(_, _)
StoryFrom(paragraphs, i) ==
    IF i > Len(paragraphs) THEN <<>>
    ELSE IF strip(paragraphs[i]) = <<>> THEN StoryFrom(paragraphs, i + 1)
    ELSE <<StyledBlock(paragraphs, paragraphs[i])>> \o StoryFrom(paragraphs, i + 1)

\* the draft split on the blank line
Paragraphs(text) == split(text, <<NL, NL>>, -1)

Translate(text) == StoryFrom(Paragraphs(text), 1)

-----------------------------------------------------------------------------
(* create_pdf: handing the blocks to ReportLab. *)

\* Paragraph(html_para, style) parses the markup when it is constructed and
\* raises ValueError on a </b> that closes nothing or a <b> left open; the
\* constructor calls are outside create_pdf's try.
RECURSIVE Unbalanced(_, _)
Unbalanced(html_para, depth) ==
    IF Len(html_para) = 0 THEN depth # 0
    ELSE IF html_para[1] = OB THEN Unbalanced(Tail(html_para), depth + 1)
    ELSE IF html_para[1] = CB
         THEN depth = 0 \/ Unbalanced(Tail(html_para), depth - 1)
    ELSE Unbalanced(Tail(html_para), depth)

ParagraphRaises(html_para) == Unbalanced(html_para, 0)

\* create_pdf's possible results: "raised" when a Paragraph constructor
\* raises; otherwise doc.build either succeeds (the bytes, "pdf") or raises
\* inside the try (st.error, return None)
CreatePdfResults(text) ==
    IF \E i \in 1..Len(Translate(text)) : ParagraphRaises(Translate(text)[i].text)
    THEN {"raised"}
    ELSE {"pdf", "None"}

-----------------------------------------------------------------------------
(* The form's initial state (the widgets' defaults, nothing generated). *)

NoUi == [error |-> "none", success |-> FALSE, download |-> None,
         warning |-> FALSE, exception |-> FALSE]
NoCalls == [generate |-> 0, create_pdf |-> 0, render |-> "none"]

UInit ==
    /\ job_title = <<"j">>
    /\ company_name = <<"c">>
    /\ skills = <<"s", ",", " ", "t">>
    /\ experience = <<"e">>
    /\ tone = <<"o">>
    /\ job_description = <<"d">>
    /\ clicked = FALSE
    /\ edit_box = None
    /\ generated_letter = None
    /\ pdf_output = None
    /\ pc = "idle"
    /\ ui = NoUi
    /\ calls = NoCalls
    /\ gen_args = None
    /\ letter_draft = None

-----------------------------------------------------------------------------
(* The Streamlit script.  Every user event reruns the script from the top: *)
(* the button block (lines 223-240), then the output block (243-269).  An  *)
(* exception that escapes the script ends the run where it is raised.      *)

JobTitles == {<<>>, <<"j">>}
CompanyNames == {<<>>, <<"c">>, <<"c", CB>>}
SkillsTexts == {<<>>, <<"s">>, <<"s", ",", " ", "t">>,
                <<"s", ",", " ", "t", ",", " ", "u">>, <<"s", NL, NL, "t">>}
Experiences == {<<>>, <<"e">>}
Tones == {<<"o">>}
JobDescriptions == {<<>>, <<"d">>}

\* the texts the user may leave in the draft text area
EditTexts == {<<>>, <<"a">>, <<STAR, STAR, "a", STAR, STAR, NL, "a">>,
              <<"a", CB>>}

\* the condition without the skills test
AllFilledNoSkills ==
    job_title # <<>> /\ company_name # <<>> /\ experience # <<>>

\* if job_title and company_name and skills and experience
AllFilled ==
    job_title # <<>> /\ company_name # <<>> /\ skills # <<>> /\ experience # <<>>

\* a session value as an if condition: None and the empty string are
\* falsy, a text with characters and the PDF bytes are truthy
Truthy(v) == v # None /\ v # Some(<<>>)

\* what create_pdf returns into session state: the bytes, which are the
\* rendering of the Story, or None
PdfOf(text, result) ==
    IF result = "pdf" THEN Some(Translate(text)) ELSE None

StartRun(click) ==
    /\ pc = "idle"
    /\ clicked' = click
    /\ pc' = "button"
    /\ ui' = NoUi
    /\ calls' = NoCalls
    /\ gen_args' = None
    /\ letter_draft' = None

\* the user changes form widgets
ChangeForm ==
    /\ StartRun(FALSE)
    /\ job_title' \in JobTitles
    /\ company_name' \in CompanyNames
    /\ skills' \in SkillsTexts
    /\ experience' \in Experiences
    /\ tone' \in Tones
    /\ job_description' \in JobDescriptions
    /\ fields' # fields
    /\ UNCHANGED <<tvars, edit_box, generated_letter, pdf_output>>

\* the user clicks "Generate Cover Letter Draft"
ClickGenerate ==
    /\ StartRun(TRUE)
    /\ UNCHANGED <<tvars, fields, edit_box, generated_letter, pdf_output>>

\* the user edits the draft text area that is on the page
EditDraft(text) ==
    /\ StartRun(FALSE)
    /\ edit_box # None
    /\ text # edit_box[1].value
    /\ edit_box' = Some([edit_box[1] EXCEPT !.value = text])
    /\ UNCHANGED <<tvars, fields, generated_letter, pdf_output>>

\* if st.button(...): the valid branch, generate and render
Generate ==
    /\ pc = "button" /\ clicked /\ AllFilled
    /\ LET skills_list == split(skills, <<",", " ">>, -1)
           draft == generate_cover_letter(job_title, company_name, skills_list,
                                          experience, tone, job_description)
       IN /\ gen_args' = Some([job_title |-> job_title, company |-> company_name,
                          skills |-> skills_list, experience |-> experience,
                          tone |-> tone, job_description |-> job_description])
          /\ letter_draft' = Some(draft)
          /\ \E result \in CreatePdfResults(draft) :
               /\ calls' = [generate |-> calls.generate + 1,
                            create_pdf |-> calls.create_pdf + 1,
                            render |-> result]
               /\ IF result = "raised"
                  THEN /\ ui' = [ui EXCEPT !.exception = TRUE]
                       /\ pc' = "idle"
                       /\ UNCHANGED <<generated_letter, pdf_output>>
                  ELSE /\ generated_letter' = Some(draft)
                       /\ pdf_output' = PdfOf(draft, result)
                       /\ ui' = [ui EXCEPT !.success = TRUE,
                                           !.error = IF result = "None"
                                                     THEN "build" ELSE @]
                       /\ pc' = "output"
    /\ UNCHANGED <<tvars, fields, clicked, edit_box>>

\* the else branch: st.error("Please fill in ...")
RejectEmpty ==
    /\ pc = "button" /\ clicked /\ ~AllFilled
    /\ ui' = [ui EXCEPT !.error = "validation"]
    /\ pc' = "output"
    /\ UNCHANGED <<tvars, fields, clicked, edit_box, generated_letter,
                   pdf_output, calls, gen_args, letter_draft>>

\* the button was not clicked in this run
NoClick ==
    /\ pc = "button" /\ ~clicked
    /\ pc' = "output"
    /\ UNCHANGED <<tvars, fields, clicked, edit_box, generated_letter,
                   pdf_output, ui, calls, gen_args, letter_draft>>

\* if st.session_state.generated_letter: is false, nothing is shown and the
\* text area, not being on the page, loses its state
NoOutput ==
    /\ pc = "output" /\ ~Truthy(generated_letter)
    /\ edit_box' = None
    /\ pc' = "idle"
    /\ UNCHANGED <<tvars, fields, clicked, generated_letter, pdf_output, ui,
                   calls, gen_args, letter_draft>>

\* st.text_area(label, generated_letter): the widget is identified by its
\* arguments, so it returns the user's text while the default is the one it
\* was edited under, and the default when the default is new
edited_letter ==
    IF edit_box # None /\ edit_box[1].default = generated_letter[1]
    THEN edit_box[1].value ELSE generated_letter[1]

\* the download button or the warning
ShowPdf(pdf) ==
    IF Truthy(pdf) THEN [ui EXCEPT !.download = pdf]
    ELSE [ui EXCEPT !.warning = TRUE]

\* the output block with the draft as the text area returns it
ShowDraft ==
    /\ pc = "output" /\ Truthy(generated_letter)
    /\ edited_letter = generated_letter[1]
    /\ edit_box' = Some([default |-> generated_letter[1], value |-> edited_letter])
    /\ ui' = ShowPdf(pdf_output)
    /\ pc' = "idle"
    /\ UNCHANGED <<tvars, fields, clicked, generated_letter, pdf_output, calls,
                   gen_args, letter_draft>>

\* the output block when the text area returns an edited draft
RenderEdit ==
    /\ pc = "output" /\ Truthy(generated_letter)
    /\ edited_letter # generated_letter[1]
    /\ edit_box' = Some([default |-> generated_letter[1], value |-> edited_letter])
    /\ generated_letter' = Some(edited_letter)
    /\ \E result \in CreatePdfResults(edited_letter) :
         /\ calls' = [calls EXCEPT !.create_pdf = @ + 1, !.render = result]
         /\ IF result = "raised"
            THEN /\ ui' = [ui EXCEPT !.exception = TRUE]
                 /\ UNCHANGED pdf_output
            ELSE /\ pdf_output' = PdfOf(edited_letter, result)
                 /\ ui' = ShowPdf(PdfOf(edited_letter, result))
    /\ pc' = "idle"
    /\ UNCHANGED <<tvars, fields, clicked, gen_args, letter_draft>>

Init ==
    /\ cover_letter_text = <<>>
    /\ Story = <<>>
    /\ pdf_value = "pending"
    /\ UInit

Next ==
    \/ ChangeForm
    \/ ClickGenerate
    \/ \E text \in EditTexts : EditDraft(text)
    \/ Generate
    \/ RejectEmpty
    \/ NoClick
    \/ NoOutput
    \/ ShowDraft
    \/ RenderEdit

Spec == Init /\ [][Next]_vars

-----------------------------------------------------------------------------
(* Translation specification: create_pdf applied to every short draft. *)

\* the characters a draft is typed from
Chars == {"a", STAR, NL, OB, CB}

TInit ==
    /\ cover_letter_text = <<>>
    /\ Story = <<>>
    /\ pdf_value = "pending"
    /\ UInit

\* the user types one more character of the draft
Type(c) ==
    /\ pdf_value = "pending"
    /\ Len(cover_letter_text) < MaxLen
    /\ cover_letter_text' = Append(cover_letter_text, c)
    /\ UNCHANGED <<Story, pdf_value, uvars>>

\* create_pdf(cover_letter_text)
CreatePdf ==
    /\ pdf_value = "pending"
    /\ Story' = Translate(cover_letter_text)
    /\ pdf_value' \in CreatePdfResults(cover_letter_text)
    /\ UNCHANGED <<cover_letter_text, uvars>>

TNext ==
    \/ \E c \in Chars : Type(c)
    \/ CreatePdf

SpecT == TInit /\ [][TNext]_vars

-----------------------------------------------------------------------------
(* Plain-draft specification: create_pdf applied to every short draft made  *)
(* of plain characters, newlines and stars (no literal markup).            *)

PlainChars == {"a", STAR, NL}

TypePlain(c) ==
    /\ pdf_value = "pending"
    /\ Len(cover_letter_text) < MaxPlain
    /\ cover_letter_text' = Append(cover_letter_text, c)
    /\ UNCHANGED <<Story, pdf_value, uvars>>

PNext ==
    \/ \E c \in PlainChars : TypePlain(c)
    \/ CreatePdf

SpecP == TInit /\ [][PNext]_vars

-----------------------------------------------------------------------------
(* Vocabulary of the translation properties. *)

\* create_pdf has run on cover_letter_text
Translated == pdf_value # "pending"

\* the raw blocks that survive the whitespace test, in order: Story[i] is
\* the translation of Surviving[i]
NotBlank(p) == \E k \in 1..Len(p) : p[k] \notin Whitespace
Surviving == SelectSeq(split(cover_letter_text, <<NL, NL>>, -1), NotBlank)

\* number of occurrences of the '**' delimiter, scanned left to right
Delims(s) == Len(split(s, <<STAR, STAR>>, -1)) - 1

IsTag(c) == c \in {OB, CB}
NoMarkup(s) == \A k \in 1..Len(s) : ~IsTag(s[k])
Count(s, c) == Cardinality({k \in 1..Len(s) : s[k] = c})

\* the bold tags of s strictly alternate <b>, </b>, <b>, </b>, ...
WellFormed(s) ==
    LET tags == SelectSeq(s, IsTag)
    IN /\ Len(tags) % 2 = 0
       /\ \A k \in 1..Len(tags) : tags[k] = (IF k % 2 = 1 THEN OB ELSE CB)

\* number of bold runs <b>...</b> of s, -1 when the tags are not runs
BoldRuns(s) == IF WellFormed(s) THEN Count(s, OB) ELSE -1

Doubled(s) == Find(s, <<OB, OB>>, 1) # 0 \/ Find(s, <<CB, CB>>, 1) # 0

\* the parity rule, by position: segment k of the split (1-based) is plain
\* when k is odd and wrapped in <b>...</b> when k is even
RECURSIVE ParityFrom(_, _)
ParityFrom(segs, k) ==
    IF k > Len(segs) THEN <<>>
    ELSE (IF k % 2 = 1 THEN segs[k] ELSE <<OB>> \o segs[k] \o <<CB>>)
         \o ParityFrom(segs, k + 1)

RECURSIVE NewlinesToBreaks(_)
NewlinesToBreaks(s) ==
    IF Len(s) = 0 THEN <<>>
    ELSE <<IF s[1] = NL THEN BR ELSE s[1]>> \o NewlinesToBreaks(Tail(s))

ParityRule(block) ==
    ParityFrom(split(NewlinesToBreaks(block), <<STAR, STAR>>, -1), 1)

\* the block goes through the generic algorithm only (Body, or Header whose
\* bounded split does not give 3 parts)
GenericPath(i) ==
    \/ Story[i].style = "Body_Justify"
    \/ Len(split(Surviving[i], <<STAR, STAR>>, 2)) # 3

\* the translated text with the tags removed and <br/> mapped back
RECURSIVE Untag(_)
Untag(s) ==
    IF Len(s) = 0 THEN <<>>
    ELSE IF IsTag(s[1]) THEN Untag(Tail(s))
    ELSE <<IF s[1] = BR THEN NL ELSE s[1]>> \o Untag(Tail(s))

-----------------------------------------------------------------------------
(* Properties of the translation. *)

\* C1 (as claimed): a non-empty Story has exactly one Header block, the
\* first one, and every later block is Body.
C1_OneHeaderFirst ==
    (Translated /\ Story # <<>>) =>
        /\ Story[1].style = "Header"
        /\ \A i \in 2..Len(Story) : Story[i].style = "Body_Justify"

\* C2 (as claimed): every block with an even number of '**' is translated
\* to exactly one bold run per delimiter pair and keeps no '**'.
C2_EvenPairsAllBlocks ==
    Translated =>
        \A i \in 1..Len(Story) :
            Delims(Surviving[i]) % 2 = 0 =>
                /\ BoldRuns(Story[i].text) = Delims(Surviving[i]) \div 2
                /\ Delims(Story[i].text) = 0

\* C2 (amended): in a draft without literal markup, every block with an
\* even number of '**' that is emitted as Body, or as Header with at most
\* two delimiters, has one bold run per pair and no '**' left; a Header
\* with four or more delimiters has one bold run (its first pair) and keeps
\* the other delimiters.
C2_EvenPairs ==
    Translated =>
        \A i \in 1..Len(Story) :
            LET d == Delims(Surviving[i])
            IN d % 2 = 0 =>
                IF Story[i].style = "Header" /\ d >= 4
                THEN /\ BoldRuns(Story[i].text) = 1
                     /\ Delims(Story[i].text) = d - 2
                ELSE /\ BoldRuns(Story[i].text) = d \div 2
                     /\ Delims(Story[i].text) = 0

\* C2 witness: a Body block with one delimiter pair was translated to one
\* bold run.
C2_Witness ==
    /\ Translated
    /\ \E i \in 1..Len(Story) :
        /\ Story[i].style = "Body_Justify"
        /\ Delims(Surviving[i]) = 2
        /\ BoldRuns(Story[i].text) = 1

\* C3 (as claimed): a first block "**name**\nrest" becomes
\* <b>name</b><br/>rest with one <br/> per newline of the block.
C3_HeaderLineBreaks ==
    (Translated /\ Len(Story) > 0) =>
        LET block == Surviving[1]
            parts == split(block, <<STAR, STAR>>, 2)
        IN (/\ Story[1].style = "Header"
            /\ Len(parts) = 3
            /\ parts[1] = <<>>
            /\ parts[2] # <<>>
            /\ Count(parts[2], NL) = 0
            /\ Len(parts[3]) > 1
            /\ parts[3][1] = NL
            /\ Delims(parts[3]) = 0)
           => /\ Story[1].text = <<OB>> \o parts[2] \o <<CB>>
                                 \o NewlinesToBreaks(parts[3])
              /\ Count(Story[1].text, BR) = Count(block, NL)

C8_WellFormedMarkup ==
    Translated => \A i \in 1..Len(Story) : WellFormed(Story[i].text)

\* C9: in a draft of plain characters, newlines and stars no translated
\* block holds <b><b> or </b></b>.
C9_NoDoubledMarkers ==
    (Translated /\ NoMarkup(cover_letter_text)) =>
        \A i \in 1..Len(Story) : ~Doubled(Story[i].text)

\* C9 witness: a Body block with back-to-back delimiter pairs ("a****a")
\* was translated, giving an empty bold run.
C9_Witness ==
    /\ Translated
    /\ NoMarkup(cover_letter_text)
    /\ \E i \in 1..Len(Story) :
        /\ Story[i].style = "Body_Justify"
        /\ Find(Surviving[i], <<"a", STAR, STAR, STAR, STAR>>, 1) # 0
        /\ Find(Story[i].text, <<OB, CB>>, 1) # 0

\* C10 (as claimed): removing the tags of a translated block and mapping
\* <br/> back to a newline gives the block's text without its delimiters.
C10_NoTextLost ==
    Translated =>
        \A i \in 1..Len(Story) :
            Untag(Story[i].text) = replace(Surviving[i], <<STAR, STAR>>, <<>>)

-----------------------------------------------------------------------------
(* Properties of the composer and of the session. *)

Styles(story) == [i \in 1..Len(story) |-> story[i].style]
HeaderThenBodies(n) ==
    [i \in 1..(n + 1) |-> IF i = 1 THEN "Header" ELSE "Body_Justify"]

NoBlankLine(s) == Find(s, <<NL, NL>>, 1) = 0

\* generate_cover_letter was called in this run with a valid LetterRequest
\* whose field values hold no blank line
ValidRequest ==
    /\ gen_args # None
    /\ LET a == gen_args[1]
       IN /\ a.job_title # <<>> /\ a.company # <<>> /\ a.experience # <<>>
          /\ Len(a.skills) >= 1
          /\ NoBlankLine(a.job_title) /\ NoBlankLine(a.company)
          /\ NoBlankLine(a.experience) /\ NoBlankLine(a.tone)
          /\ NoBlankLine(a.job_description)
          /\ \A k \in 1..Len(a.skills) : NoBlankLine(a.skills[k])

\* C4 (as claimed): the composed draft of a valid request translates to one
\* Header block followed by 3 or 4 Body blocks.
C4_ThreeOrFourBodies ==
    ValidRequest =>
        Styles(Translate(letter_draft[1]))
            \in {HeaderThenBodies(3), HeaderThenBodies(4)}

\* C4 (amended): the composed draft of a valid request translates to one
\* Header block followed by exactly 7 Body blocks (salutation, the four
\* paragraphs, "Sincerely," and the name line).
C4_SevenBodies ==
    ValidRequest =>
        Styles(Translate(letter_draft[1])) = HeaderThenBodies(7)

\* C4 witness: a draft was composed for a valid request with three skills.
C4_Witness ==
    /\ ValidRequest
    /\ letter_draft # None
    /\ Len(gen_args[1].skills) = 3
    /\ generated_letter = letter_draft

\* C5 (as claimed): at the end of every script run pdf_output is what
\* create_pdf made of the current generated_letter: the bytes when the
\* render succeeded, None when it failed; a download is only offered for
\* the current draft, and after a failed render none is offered and the
\* warning is shown.
C5_PdfMatchesDraft ==
    pc = "idle" =>
        /\ pdf_output # None =>
              /\ generated_letter # None
              /\ pdf_output = Some(Translate(generated_letter[1]))
        /\ ui.download # None =>
              /\ generated_letter # None
              /\ ui.download = Some(Translate(generated_letter[1]))
        /\ calls.render = "pdf" => pdf_output # None
        /\ calls.render = "None" =>
              pdf_output = None /\ ui.download = None /\ ui.warning

AnyRequiredEmpty ==
    job_title = <<>> \/ company_name = <<>> \/ skills = <<>> \/ experience = <<>>

\* C7: a click on Generate with a required field empty shows the validation
\* error, calls neither generate_cover_letter nor create_pdf and leaves
\* generated_letter and pdf_output as they were; generate_cover_letter is
\* only called with the four required fields non-empty and at least one
\* skill in the list.
C7_EmptyFieldRejected ==
    /\ [](gen_args # None =>
            /\ gen_args[1].job_title # <<>>
            /\ gen_args[1].company # <<>>
            /\ gen_args[1].experience # <<>>
            /\ join(<<",", " ">>, gen_args[1].skills) # <<>>
            /\ Len(gen_args[1].skills) >= 1)
    /\ [][(pc = "button" /\ clicked /\ AnyRequiredEmpty) =>
            /\ ui'.error = "validation"
            /\ calls' = NoCalls
            /\ gen_args' = None
            /\ generated_letter' = generated_letter
            /\ pdf_output' = pdf_output]_vars

\* C7 witness: a click with the skills field empty was rejected while an
\* earlier draft and its PDF were in the session.
C7_Witness ==
    /\ pc = "output"
    /\ clicked
    /\ skills = <<>>
    /\ ui.error = "validation"
    /\ generated_letter # None
    /\ pdf_output # None

====
